---- MODULE Spec2Model ----
(***************************************************************************)
(* A model of three parts of the STUDIO-CAOTRANGAI application:            *)
(*   - lib/credits.ts: the localStorage-backed credit bookkeeping, and the *)
(*     credit gate of Spring2026Creator and TetQr2026Creator;              *)
(*   - netlify/functions/generate.ts: the serverless proxy;                *)
(*   - LayerComposer/useLayerComposerState.ts: layers and undo history;    *)
(*   - App.tsx: the submit form of the name-plate studio.                  *)
(* Each part has its own specification over the shared variables.          *)
(***************************************************************************)
EXTENDS Integers, Sequences, FiniteSets, TLC

VARIABLES
    localStorage,   \* key -> <<>> (no item) or <<text>>; a text is a sequence of characters
    lastCall,       \* the call into lib/credits.ts made by the last step: operation, arguments,
                    \* result, and the balance item it found
    appState,       \* creator -> the appState prop of Spring2026Creator / TetQr2026Creator
    attempts,       \* the handler invocations of the creators, each with its closure and position
    event,          \* the event handed to the serverless handler
    response,       \* what the handler's promise settled to
    modelCall,      \* the ai.models.generateContent call of that run: made or not, and its outcome
    layers, history, historyIndex, selectedLayerIds,   \* useLayerComposerState's state
    canvasInitialized,
    nextId,         \* ids handed out by nanoid() so far
    lastOp,         \* the last operation of the layer composer and whether it took effect
    loads,          \* the layer additions awaiting a file, an image or the image service,
                    \* each with the closure it will call addLayer in
    app             \* the state of App, the position of its handleSubmit, the requests sent

vars == <<localStorage, lastCall, appState, attempts, event, response, modelCall,
          layers, history, historyIndex, selectedLayerIds, canvasInitialized, nextId, lastOp,
          loads, app>>

creditVars == <<localStorage, lastCall>>
creatorVars == <<appState, attempts>>
handlerVars == <<event, response, modelCall>>
composerVars == <<layers, history, historyIndex, selectedLayerIds, canvasInitialized, nextId, lastOp>>

(***************************************************************************)
(* Bounds of the model.                                                    *)
(***************************************************************************)
\* largest credit count written by the login configuration or passed to resetUserCredits
MaxValue == 2
\* handler invocations of the creators that pass the credit gate, over a run
MaxAttempts == 2
\* form fields in the multipart body of a request
MaxParts == 2
\* layers created over a run of the layer composer (ids handed out by nanoid)
MaxIds == 2
\* snapshots kept in the undo history
MaxHistory == 3
\* largest coordinate a layer is moved to
MaxCoord == 1
\* layers on the canvas when handleMultiLayerAction is called
MaxLayers == 8
\* largest coordinate of a layer placed on that canvas
MaxX == 29
MaxBetween == 1
\* layer additions pending at once
MaxLoads == 2
\* requests App sends over a run
MaxRequests == 2

(***************************************************************************)
(* JavaScript values.  A number is <<n>> for the integer n and <<>> for    *)
(* NaN; a text is a sequence of one-character strings; an item of          *)
(* localStorage is <<>> (getItem gives null) or <<text>>.                  *)
(***************************************************************************)
NaN == <<>>
Null == <<>>
Num(n) == <<n>>
IsNaN(v) == v = NaN

DigitChars == <<"0", "1", "2", "3", "4", "5", "6", "7", "8", "9">>

IsDigit(c) == \E d \in 1..10 : DigitChars[d] = c

DigitValue(c) == (CHOOSE d \in 1..10 : DigitChars[d] = c) - 1

\* the decimal digits of n >= 0, most significant first
RECURSIVE NatToText(_)
NatToText(n) ==
    IF n < 10 THEN <<DigitChars[n + 1]>>
    ELSE NatToText(n \div 10) \o <<DigitChars[(n % 10) + 1]>>

\* String(v) of a number
NumberToString(v) ==
    IF IsNaN(v) THEN <<"N", "a", "N">>
    ELSE IF v[1] < 0 THEN <<"-">> \o NatToText(0 - v[1])
    ELSE NatToText(v[1])

\* the text without its leading white space
RECURSIVE TrimStart(_)
TrimStart(t) ==
    IF t # <<>> /\ Head(t) = " " THEN TrimStart(Tail(t)) ELSE t

\* the longest prefix of t made of decimal digits
RECURSIVE DigitPrefix(_)
DigitPrefix(t) ==
    IF t # <<>> /\ IsDigit(Head(t)) THEN <<Head(t)>> \o DigitPrefix(Tail(t)) ELSE <<>>

\* the value of a sequence of digits
RECURSIVE DigitsValue(_)
DigitsValue(ds) ==
    IF ds = <<>> THEN 0
    ELSE DigitsValue(SubSeq(ds, 1, Len(ds) - 1)) * 10 + DigitValue(ds[Len(ds)])

\* parseInt(text, 10): white space, an optional sign, then the longest run of
\* digits; NaN when there is no digit there.  What follows the digits is ignored.
ParseInt(t) ==
    LET s == TrimStart(t)
        signed == s # <<>> /\ Head(s) \in {"+", "-"}
        body == IF signed THEN Tail(s) ELSE s
        ds == DigitPrefix(body)
    IN  IF ds = <<>> THEN NaN
        ELSE IF signed /\ Head(s) = "-" THEN Num(0 - DigitsValue(ds))
        ELSE Num(DigitsValue(ds))

\* a JavaScript string used as a condition: null and "" are falsy
Truthy(item) == item # Null /\ item[1] # <<>>

(***************************************************************************)
(* lib/credits.ts, run in the browser (typeof window is "object", so the   *)
(* `typeof window === "undefined"` returns are not taken).                 *)
(***************************************************************************)
DEFAULT_NORMAL_CREDITS == 5
DEFAULT_VIP_CREDITS == 20

UsernameKey == <<"caotrang_username">>
RoleKey == <<"caotrang_role">>
BaseKey(username) == <<"caotrang_base_credits_", username>>
CreditsKey(username) == <<"caotrang_credits_", username>>

VipText == <<"v", "i", "p">>
NormalText == <<"n", "o", "r", "m", "a", "l">>

getItem(store, key) == store[key]
setItem(store, key, text) == [store EXCEPT ![key] = <<text>>]
removeItem(store, key) == [store EXCEPT ![key] = Null]

getCurrentUsername(store) == getItem(store, UsernameKey)

\* getUserRole comparing with a text that is never stored
getUserRoleNeverVip(store, username) == "normal"

getUserRole(store, username) ==
    LET role == getItem(store, RoleKey)
    IN  IF role = <<VipText>> THEN "vip" ELSE "normal"

getMaxCredits(store, username) ==
    LET baseStored == getItem(store, BaseKey(username))
        parsed == IF Truthy(baseStored) THEN ParseInt(baseStored[1]) ELSE NaN
    IN  IF Truthy(baseStored) /\ ~IsNaN(parsed) THEN parsed[1]
        ELSE IF getUserRole(store, username) = "vip" THEN DEFAULT_VIP_CREDITS
        ELSE DEFAULT_NORMAL_CREDITS

\* getUserCredits testing `if (value)` where the code tests !Number.isNaN(value)
getUserCreditsRefillsZero(store, username) ==
    LET key == CreditsKey(username)
        stored == getItem(store, key)
        value == IF Truthy(stored) THEN ParseInt(stored[1]) ELSE NaN
        initial == getMaxCredits(store, username)
    IN  IF Truthy(stored) /\ ~IsNaN(value) /\ value[1] # 0
        THEN [ret |-> value[1], store |-> store]
        ELSE [ret |-> initial, store |-> setItem(store, key, NumberToString(Num(initial)))]

\* the value returned and the storage left behind
getUserCredits(store, username) ==
    LET key == CreditsKey(username)
        stored == getItem(store, key)
        value == IF Truthy(stored) THEN ParseInt(stored[1]) ELSE NaN
        initial == getMaxCredits(store, username)
    IN  IF Truthy(stored) /\ ~IsNaN(value)
        THEN [ret |-> value[1], store |-> store]
        ELSE [ret |-> initial, store |-> setItem(store, key, NumberToString(Num(initial)))]

Max(a, b) == IF a >= b THEN a ELSE b

\* decreaseUserCredits without Math.max(..., 0)
decreaseUserCreditsUnclamped(store, username) ==
    LET got == getUserCredits(store, username)
        next == got.ret - 1
    IN  [ret |-> next,
         store |-> setItem(got.store, CreditsKey(username), NumberToString(Num(next)))]

decreaseUserCredits(store, username) ==
    LET got == getUserCredits(store, username)
        current == got.ret
        next == Max(current - 1, 0)
    IN  [ret |-> next,
         store |-> setItem(got.store, CreditsKey(username), NumberToString(Num(next)))]

\* value is <<>> when the argument is left out, <<v>> for the number v
resetUserCredits(store, username, value) ==
    LET resetValue == IF value # <<>> THEN value[1] ELSE Num(getMaxCredits(store, username))
    IN  setItem(store, CreditsKey(username), NumberToString(resetValue))

(***************************************************************************)
(* The contents of localStorage.  caotrang_username, caotrang_role and     *)
(* caotrang_base_credits_<username> are written at login, outside          *)
(* lib/credits.ts, which only reads them; caotrang_credits_<username> is   *)
(* written by lib/credits.ts alone and starts absent.                      *)
(***************************************************************************)
Usernames == {<<"a">>, <<"b">>}

Keys == {UsernameKey, RoleKey} \cup {BaseKey(u) : u \in Usernames}
            \cup {CreditsKey(u) : u \in Usernames}

\* the numbers a caller may pass or the login may have configured
ConfigNumbers == {NaN} \cup {Num(n) : n \in (0 - 1)..MaxValue}

BaseItems == {Null, <<<<>>>>} \cup {<<NumberToString(v)>> : v \in ConfigNumbers}
RoleItems == {Null, <<VipText>>, <<NormalText>>}
UsernameItems == {Null, <<<<>>>>} \cup {<<u>> : u \in Usernames}

NoCall == [op |-> "none", username |-> <<>>, value |-> <<>>, ret |-> NaN, before |-> Null]

InitStorage ==
    /\ localStorage \in [Keys -> UsernameItems \cup RoleItems \cup BaseItems]
    /\ localStorage[UsernameKey] \in UsernameItems
    /\ localStorage[RoleKey] \in RoleItems
    /\ \A u \in Usernames : /\ localStorage[BaseKey(u)] \in BaseItems
                            /\ localStorage[CreditsKey(u)] = Null

(***************************************************************************)
(* Calls into lib/credits.ts.                                              *)
(***************************************************************************)
GetUserCreditsCall(username) ==
    LET r == getUserCredits(localStorage, username)
    IN  /\ UNCHANGED <<creatorVars, handlerVars, composerVars, loads, app>>
        /\ localStorage' = r.store
        /\ lastCall' = [op |-> "getUserCredits", username |-> username, value |-> <<>>,
                        ret |-> Num(r.ret), before |-> localStorage[CreditsKey(username)]]

DecreaseUserCreditsCall(username) ==
    LET r == decreaseUserCredits(localStorage, username)
    IN  /\ UNCHANGED <<creatorVars, handlerVars, composerVars, loads, app>>
        /\ localStorage' = r.store
        /\ lastCall' = [op |-> "decreaseUserCredits", username |-> username, value |-> <<>>,
                        ret |-> Num(r.ret), before |-> localStorage[CreditsKey(username)]]

ResetUserCreditsCall(username, value) ==
    /\ UNCHANGED <<creatorVars, handlerVars, composerVars, loads, app>>
    /\ localStorage' = resetUserCredits(localStorage, username, value)
    /\ lastCall' = [op |-> "resetUserCredits", username |-> username, value |-> value,
                    ret |-> NaN, before |-> localStorage[CreditsKey(username)]]

\* the stored balance is deleted (localStorage.removeItem or clear, by the user or the page)
RemoveCreditsItem(username) ==
    /\ UNCHANGED <<creatorVars, handlerVars, composerVars, loads, app>>
    /\ localStorage[CreditsKey(username)] # Null
    /\ localStorage' = removeItem(localStorage, CreditsKey(username))
    /\ lastCall' = [op |-> "removeItem", username |-> username, value |-> <<>>,
                    ret |-> NaN, before |-> localStorage[CreditsKey(username)]]

(***************************************************************************)
(* Spring2026Creator (components/BeautyCreator.tsx) and TetQr2026Creator   *)
(* (components/TetQr2026Creator.tsx).  A handler runs with the appState of *)
(* the render it was created in (its closure) and calls onStateChange with *)
(* copies of that; it is suspended at each await, where other handlers and *)
(* other promise callbacks run.  embedJsonInPng is outside these sources:  *)
(* its await is a point of suspension that resolves.                       *)
(***************************************************************************)
Spring == "spring2026Creator"
TetQr == "tet-qr-2026"
Creators == {Spring, TetQr}

\* ToyModelCreator has the same appState and handlers, and no credit check
ToyModel == "toy-model-creator"
SingleImageCreators == Creators \cup {ToyModel}

InitialAppState ==
    [stage |-> "idle", uploadedImage |-> FALSE, generatedImage |-> 0,
     historicalImages |-> <<>>, error |-> FALSE, optionsFilled |-> FALSE]

\* handleImageSelectedForUploader
HandleImageSelectedForUploader(c) ==
    /\ UNCHANGED <<handlerVars, composerVars, loads, app>>
    /\ appState' = [appState EXCEPT ![c] =
            [@ EXCEPT !.stage = "configuring", !.uploadedImage = TRUE, !.generatedImage = 0,
                      !.historicalImages = <<>>, !.error = FALSE]]
    /\ lastCall' = NoCall
    /\ UNCHANGED <<attempts, localStorage>>

\* handleOptionChange, filling in bankName, accountNumber and accountName
HandleOptionChange(c) ==
    /\ UNCHANGED <<handlerVars, composerVars, loads, app>>
    /\ c = TetQr
    /\ ~appState[c].optionsFilled
    /\ appState' = [appState EXCEPT ![c].optionsFilled = TRUE]
    /\ lastCall' = NoCall
    /\ UNCHANGED <<attempts, localStorage>>

\* handleBackToOptions, offered in the stages 'generating' and 'results'
HandleBackToOptions(c) ==
    /\ UNCHANGED <<handlerVars, composerVars, loads, app>>
    /\ appState[c].stage \in {"generating", "results"}
    /\ appState' = [appState EXCEPT ![c] = [@ EXCEPT !.stage = "configuring", !.error = FALSE]]
    /\ lastCall' = NoCall
    /\ UNCHANGED <<attempts, localStorage>>

\* the checks a handler makes before the credit check; its button is
\* disabled or not rendered while the stage is 'generating'
PassesFirstGuard(c, handler) ==
    /\ appState[c].stage # "generating"
    /\ CASE handler = "executeInitialGeneration" -> c = Spring /\ appState[c].uploadedImage
         [] handler = "executeGeneration" -> c = TetQr /\ appState[c].optionsFilled
         [] handler = "handleRegeneration" -> appState[c].generatedImage # 0

HandlersOf(c) ==
    IF c = Spring THEN {"executeInitialGeneration", "handleRegeneration"}
    ELSE {"executeGeneration", "handleRegeneration"}

\* the credit check written `< 0` where the code has `<= 0`
CreditGateOpenAtZero(credits) == ~(credits < 0)

\* the credit check: TRUE when the handler goes on
CreditGateOpen(credits) == ~(credits <= 0)

\* A handler is invoked: its guards, the credit check, onStateChange to
\* 'generating' and the first call inside the try block.
InvokeHandler(c, handler) ==
    /\ UNCHANGED <<handlerVars, composerVars, loads, app>>
    /\ handler \in HandlersOf(c)
    /\ Len(attempts) < MaxAttempts
    /\ PassesFirstGuard(c, handler)
    /\ LET username == getCurrentUsername(localStorage)
           got == getUserCredits(localStorage, username[1])
       IN  IF ~Truthy(username)
           THEN /\ lastCall' = [NoCall EXCEPT !.op = "getCurrentUsername"]
                /\ UNCHANGED <<localStorage, appState, attempts>>
           ELSE /\ localStorage' = got.store
                /\ lastCall' = [op |-> "getUserCredits", username |-> username[1],
                                value |-> <<>>, ret |-> Num(got.ret),
                                before |-> localStorage[CreditsKey(username[1])]]
                /\ IF ~CreditGateOpen(got.ret)
                   THEN UNCHANGED <<appState, attempts>>
                   ELSE /\ appState' = [appState EXCEPT ![c] =
                                [@ EXCEPT !.stage = "generating", !.error = FALSE]]
                        /\ attempts' = Append(attempts,
                                [creator |-> c, handler |-> handler, username |-> username[1],
                                 closure |-> appState[c],
                                 pc |-> IF handler = "executeGeneration" THEN "awaitQr"
                                        ELSE "awaitService",
                                 deducted |-> 0])

\* ToyModelCreator.executeInitialGeneration / handleRegeneration: the guard,
\* onStateChange to 'generating' and the call of the image service
InvokeToyHandler(handler) ==
    /\ UNCHANGED <<handlerVars, composerVars, loads, app>>
    /\ handler \in {"executeInitialGeneration", "handleRegeneration"}
    /\ Len(attempts) < MaxAttempts
    /\ appState[ToyModel].stage # "generating"
    /\ IF handler = "executeInitialGeneration" THEN appState[ToyModel].uploadedImage
       ELSE appState[ToyModel].generatedImage # 0
    /\ appState' = [appState EXCEPT ![ToyModel] =
            [@ EXCEPT !.stage = "generating", !.error = FALSE]]
    /\ attempts' = Append(attempts,
            [creator |-> ToyModel, handler |-> handler, username |-> <<>>,
             closure |-> appState[ToyModel], pc |-> "awaitService", deducted |-> 0])
    /\ lastCall' = NoCall
    /\ UNCHANGED localStorage

\* the catch block without stage: 'results'
CatchKeepsStage(i) ==
    /\ appState' = [appState EXCEPT ![attempts[i].creator] =
            [attempts[i].closure EXCEPT !.error = TRUE]]
    /\ attempts' = [attempts EXCEPT ![i].pc = "failed"]

\* the catch block: onStateChange({...appState, stage: 'results', error})
Catch(i) ==
    /\ appState' = [appState EXCEPT ![attempts[i].creator] =
            [attempts[i].closure EXCEPT !.stage = "results", !.error = TRUE]]
    /\ attempts' = [attempts EXCEPT ![i].pc = "failed"]

\* generateRealStyledQrCode settles (TetQr2026Creator.executeGeneration)
QrSettles(i, ok) ==
    /\ UNCHANGED <<handlerVars, composerVars, loads, app>>
    /\ i \in 1..Len(attempts)
    /\ attempts[i].pc = "awaitQr"
    /\ IF ok THEN /\ attempts' = [attempts EXCEPT ![i].pc = "awaitService"]
                  /\ UNCHANGED appState
       ELSE Catch(i)
    /\ lastCall' = NoCall
    /\ UNCHANGED localStorage

\* the deduction made once the image service has resolved
Deduct(i) ==
    LET username == attempts[i].username
        current == getUserCredits(localStorage, username).ret
        r == decreaseUserCredits(localStorage, username)
    IN  /\ localStorage' = r.store
        /\ lastCall' = [op |-> "decreaseUserCredits", username |-> username, value |-> <<>>,
                        ret |-> Num(r.ret), before |-> localStorage[CreditsKey(username)]]
        /\ attempts' = [attempts EXCEPT ![i].pc = "awaitEmbed",
                                        ![i].deducted = current - r.ret]
        /\ UNCHANGED appState

\* generateSpring2026Image / generateTetQr2026Image / editImageWithPrompt settles
ServiceSettles(i, ok) ==
    /\ UNCHANGED <<handlerVars, composerVars, loads, app>>
    /\ i \in 1..Len(attempts)
    /\ attempts[i].creator \in Creators
    /\ attempts[i].pc = "awaitService"
    /\ IF ok THEN Deduct(i)
       ELSE Catch(i) /\ lastCall' = NoCall /\ UNCHANGED localStorage

\* generateToyModelImage / editImageWithPrompt settles in ToyModelCreator
ToyServiceSettles(i, ok) ==
    /\ UNCHANGED <<handlerVars, composerVars, loads, app>>
    /\ i \in 1..Len(attempts)
    /\ attempts[i].creator = ToyModel
    /\ attempts[i].pc = "awaitService"
    /\ IF ok THEN /\ attempts' = [attempts EXCEPT ![i].pc = "awaitEmbed"]
                  /\ UNCHANGED appState
       ELSE Catch(i)
    /\ lastCall' = NoCall
    /\ UNCHANGED localStorage

\* embedJsonInPng resolves: logGeneration, onStateChange with the new image
EmbedSettles(i) ==
    /\ UNCHANGED <<handlerVars, composerVars, loads, app>>
    /\ i \in 1..Len(attempts)
    /\ attempts[i].pc = "awaitEmbed"
    /\ appState' = [appState EXCEPT ![attempts[i].creator] =
            [attempts[i].closure EXCEPT !.stage = "results", !.generatedImage = i,
                 !.historicalImages = Append(attempts[i].closure.historicalImages, i)]]
    /\ attempts' = [attempts EXCEPT ![i].pc = "done"]
    /\ lastCall' = NoCall
    /\ UNCHANGED localStorage

(***************************************************************************)
(* netlify/functions/generate.ts.  A Buffer is a sequence of bytes, each   *)
(* byte written as a string ("CR" and "LF" for \r and \n); indices are     *)
(* those of the code, counted from 0.  The base64 transport of the body is *)
(* lossless and is not modelled: event.body is the decoded bytes, or Null. *)
(***************************************************************************)
CRLF == <<"CR", "LF">>

\* bodyBuffer.slice(start, end)
Slice(buf, start, end) ==
    LET e == IF end > Len(buf) THEN Len(buf) ELSE end
    IN  IF e <= start THEN <<>> ELSE SubSeq(buf, start + 1, e)

StartsWithAt(buf, pat, i) ==
    /\ i + Len(pat) <= Len(buf)
    /\ \A k \in 1..Len(pat) : buf[i + k] = pat[k]

\* buf.indexOf(pat, from): the first index >= from where pat occurs, or -1
IndexOf(buf, pat, from) ==
    LET hits == {i \in from..(Len(buf) - Len(pat)) : StartsWithAt(buf, pat, i)}
    IN  IF hits = {} THEN 0 - 1 ELSE CHOOSE i \in hits : \A j \in hits : i <= j

\* the bytes of t up to the first byte in stops
RECURSIVE TakeUntil(_, _)
TakeUntil(t, stops) ==
    IF t = <<>> \/ Head(t) \in stops THEN <<>> ELSE <<Head(t)>> \o TakeUntil(Tail(t), stops)

BoundaryEq == <<"b", "o", "u", "n", "d", "a", "r", "y", "=">>
NameEq == <<"n", "a", "m", "e", "=", "\"">>

\* contentType.match(/boundary=(?:"([^"]+)"|([^;]+))/i), then match[1] || match[2];
\* Null when there is no match.  The content types of the model are in lower case.
BoundaryOf(contentType) ==
    LET at == IndexOf(contentType, BoundaryEq, 0)
        rest == Slice(contentType, at + Len(BoundaryEq), Len(contentType))
        quoted == IF rest # <<>> /\ Head(rest) = "\"" THEN TakeUntil(Tail(rest), {"\""}) ELSE <<>>
        closed == quoted # <<>> /\ Len(rest) >= Len(quoted) + 2
        bare == TakeUntil(rest, {";"})
    IN  IF at = 0 - 1 THEN Null
        ELSE IF closed THEN <<quoted>>
        ELSE IF bare # <<>> THEN <<bare>>
        ELSE Null

\* headerText.match(/name="([^"]+)"/), then nameMatch[1], or "" without a match
FieldNameOf(headerText) ==
    LET hits == {i \in 0..Len(headerText) :
                    /\ StartsWithAt(headerText, NameEq, i)
                    /\ LET v == TakeUntil(Slice(headerText, i + Len(NameEq), Len(headerText)), {"\""})
                       IN  v # <<>> /\ i + Len(NameEq) + Len(v) < Len(headerText)}
        at == CHOOSE i \in hits : \A j \in hits : i <= j
    IN  IF hits = {} THEN <<>>
        ELSE TakeUntil(Slice(headerText, at + Len(NameEq), Len(headerText)), {"\""})

FaceName == <<"f", "a", "c", "e">>
ModeName == <<"m", "o", "d", "e">>
JobName == <<"j", "o", "b">>

EmptyParsedBody == [mode |-> <<"nameplate">>, job |-> <<>>, faceBuffer |-> Null]

\* one turn of parseMultipart's loop on the part between two boundaries
ParsePart(result, partBuffer) ==
    LET headerEndIndex == IndexOf(partBuffer, CRLF \o CRLF, 0)
        headerText == Slice(partBuffer, 0, headerEndIndex)
        content == Slice(partBuffer, headerEndIndex + 4, Len(partBuffer))
        fieldName == FieldNameOf(headerText)
    IN  IF headerEndIndex = 0 - 1 THEN result
        ELSE IF fieldName = FaceName THEN [result EXCEPT !.faceBuffer = <<content>>]
        ELSE IF fieldName = ModeName THEN [result EXCEPT !.mode = content]
        ELSE IF fieldName = JobName THEN [result EXCEPT !.job = content]
        ELSE result

RECURSIVE ParseLoop(_, _, _, _)
ParseLoop(bodyBuffer, boundaryBuffer, lastIndex, result) ==
    LET startIndex == IndexOf(bodyBuffer, boundaryBuffer, lastIndex)
        afterBoundary == startIndex + Len(boundaryBuffer)
        nextBoundaryIndex == IndexOf(bodyBuffer, boundaryBuffer, afterBoundary + 2)
        partBuffer == Slice(bodyBuffer, afterBoundary + 2, nextBoundaryIndex - 2)
    IN  IF startIndex = 0 - 1 THEN result
        ELSE IF nextBoundaryIndex = 0 - 1 THEN result
        ELSE ParseLoop(bodyBuffer, boundaryBuffer, nextBoundaryIndex,
                       ParsePart(result, partBuffer))

\* parseMultipart(bodyBase64, contentType): [threw |-> TRUE] when Buffer.from
\* is handed null, else the ParsedBody (its name, phone, outfit and
\* portraitStyle fields only feed the prompt and are left out)
parseMultipart(body, contentType) ==
    LET boundary == BoundaryOf(contentType)
    IN  IF boundary = Null THEN [threw |-> FALSE, parsed |-> EmptyParsedBody]
        ELSE IF body = Null THEN [threw |-> TRUE, parsed |-> EmptyParsedBody]
        ELSE [threw |-> FALSE,
              parsed |-> ParseLoop(body[1], <<"-", "-">> \o boundary[1], 0, EmptyParsedBody)]

\* json(statusCode, payload); the fixed headers are left out
json(statusCode, payload) == [statusCode |-> statusCode, payload |-> payload]

\* response?.candidates?.[0]?.content?.parts ?? []
PartsOf(resp) ==
    IF resp = Null THEN <<>>
    ELSE IF Len(resp[1].candidates) = 0 THEN <<>>
    ELSE IF resp[1].candidates[1].content = Null THEN <<>>
    ELSE resp[1].candidates[1].content[1].parts

\* p?.inlineData?.data used as a condition
HasData(p) == p.inlineData # Null /\ p.inlineData[1].data # <<>>

\* the image looked for in the first part only
FindImagePartFirstOnly(parts) ==
    IF Len(parts) > 0 /\ HasData(parts[1]) THEN <<parts[1]>> ELSE <<>>

\* parts.find((p) => p?.inlineData?.data): <<>> for undefined, else <<part>>
FindImagePart(parts) ==
    LET hits == {i \in 1..Len(parts) : HasData(parts[i])}
    IN  IF hits = {} THEN <<>> ELSE <<parts[CHOOSE i \in hits : \A j \in hits : i <= j]>>

\* err?.message || "Lỗi hệ thống."
ErrorPayload(message) == [error |-> IF message = "" THEN "Loi he thong." ELSE message]

NoModelCall == [made |-> FALSE, outcome |-> Null]

\* the handler without its `if (!parsed.faceBuffer) return json(400, ...)`
HandlerUntilAwaitNoFaceCheck(e) ==
    IF e.httpMethod = "OPTIONS" THEN <<json(204, "")>>
    ELSE IF e.httpMethod # "POST" THEN <<json(405, [error |-> "Method not allowed"])>>
    ELSE LET contentType == IF Truthy(e.contentType) THEN e.contentType[1] ELSE <<>>
             fromThrows == ~e.isBase64Encoded /\ e.body = Null
             parsed == parseMultipart(e.body, contentType)
         IN  IF fromThrows \/ parsed.threw
             THEN <<json(500, ErrorPayload("The first argument must be of type string"))>>
             ELSE Null

\* The handler up to its first await or return.  The result is the response
\* it returns, or Null when it has called ai.models.generateContent.
HandlerUntilAwait(e) ==
    IF e.httpMethod = "OPTIONS" THEN <<json(204, "")>>
    ELSE IF e.httpMethod # "POST" THEN <<json(405, [error |-> "Method not allowed"])>>
    ELSE LET contentType == IF Truthy(e.contentType) THEN e.contentType[1] ELSE <<>>
             fromThrows == ~e.isBase64Encoded /\ e.body = Null
             parsed == parseMultipart(e.body, contentType)
         IN  IF fromThrows \/ parsed.threw
             THEN <<json(500, ErrorPayload("The first argument must be of type string"))>>
             ELSE IF parsed.parsed.faceBuffer = Null
             THEN <<json(400, [error |-> "Thieu anh chan dung."])>>
             ELSE Null

\* The handler after ai.models.generateContent has settled.
HandlerAfterAwait(outcome) ==
    IF outcome.kind = "rejects" THEN json(500, ErrorPayload(outcome.message))
    ELSE LET imagePart == FindImagePart(PartsOf(outcome.response))
         IN  IF imagePart = <<>> THEN json(502, [error |-> "AI khong tao duoc anh."])
             ELSE json(200, [image_base64 |-> imagePart[1].inlineData[1].data])

(***************************************************************************)
(* The requests and the answers of the image model.                        *)
(***************************************************************************)
Delimiter == <<"-", "-", "X">>
Disposition == <<"c", "d", ";", " ">>

\* a form field as a client writes it between two boundary lines
EncodePart(field) ==
    Delimiter \o CRLF \o Disposition \o NameEq \o field.name \o <<"\"">> \o CRLF \o CRLF
        \o field.content \o CRLF

RECURSIVE EncodeParts(_)
EncodeParts(form) ==
    IF form = <<>> THEN <<>> ELSE EncodePart(Head(form)) \o EncodeParts(Tail(form))

\* multipart/form-data of the form; a truncated body lacks the closing boundary line
EncodeMultipart(form, framing) ==
    EncodeParts(form) \o (IF framing = "closed" THEN Delimiter \o <<"-", "-">> \o CRLF ELSE <<>>)

Fields ==
    {[name |-> FaceName, content |-> <<>>], [name |-> FaceName, content |-> <<"z">>],
     [name |-> ModeName, content |-> <<"c">>], [name |-> JobName, content |-> <<"j">>]}

RECURSIVE SeqsUpTo(_, _)
SeqsUpTo(S, n) ==
    IF n = 0 THEN {<<>>}
    ELSE LET shorter == SeqsUpTo(S, n - 1)
         IN  shorter \cup {Append(q, x) : q \in shorter, x \in S}

Forms == SeqsUpTo(Fields, MaxParts)

MultipartType == <<"m", "/", "f">>
ContentTypes ==
    {Null, <<MultipartType>>,
     <<MultipartType \o <<";", " ">> \o BoundaryEq \o <<"X">>>>,
     <<MultipartType \o <<";", " ">> \o BoundaryEq \o <<"\"", "X", "\"">>>>}

\* what a client sends: a form, closed or cut short, or no body at all
Requests ==
    {[form |-> f, framing |-> fr] : f \in Forms, fr \in {"closed", "truncated"}}
        \cup {[form |-> <<>>, framing |-> "none"]}

\* form and framing say what the client sent; the handler reads the other
\* fields.  A request without a body has nothing encoded in base64.
Events ==
    {e \in {[httpMethod |-> m, contentType |-> ct, isBase64Encoded |-> b64,
             form |-> r.form, framing |-> r.framing,
             body |-> IF r.framing = "none" THEN Null
                      ELSE <<EncodeMultipart(r.form, r.framing)>>] :
                m \in {"OPTIONS", "GET", "POST"}, ct \in ContentTypes, b64 \in BOOLEAN,
                r \in Requests} :
        e.body = Null => ~e.isBase64Encoded}

TextPart == [inlineData |-> Null]
EmptyDataPart == [inlineData |-> <<[data |-> <<>>]>>]
ImageDataPart == [inlineData |-> <<[data |-> <<"i", "m", "g">>]>>]

Candidates ==
    {[content |-> Null]} \cup
    {[content |-> <<[parts |-> ps]>>] :
        ps \in {<<>>, <<TextPart>>, <<EmptyDataPart>>, <<ImageDataPart>>,
                <<TextPart, ImageDataPart>>}}

ModelOutcomes ==
    {[kind |-> "rejects", message |-> m, response |-> Null] : m \in {"", "quota exceeded"}}
    \cup {[kind |-> "resolves", message |-> "", response |-> Null]}
    \cup {[kind |-> "resolves", message |-> "", response |-> <<[candidates |-> cs]>>] :
            cs \in SeqsUpTo(Candidates, 2)}

NoEvent == [httpMethod |-> "none", contentType |-> Null, isBase64Encoded |-> FALSE,
            form |-> <<>>, framing |-> "none", body |-> Null]

\* an invocation of the function: the handler runs to its first await or return
HandlerStart(e) ==
    /\ UNCHANGED <<creditVars, creatorVars, composerVars, loads, app>>
    /\ event = NoEvent
    /\ event' = e
    /\ response' = HandlerUntilAwait(e)
    /\ modelCall' = [made |-> HandlerUntilAwait(e) = Null, outcome |-> Null]

\* ai.models.generateContent settles and the handler runs to its end
ModelSettles(outcome) ==
    /\ UNCHANGED <<creditVars, creatorVars, composerVars, loads, app>>
    /\ event # NoEvent /\ response = Null
    /\ response' = <<HandlerAfterAwait(outcome)>>
    /\ modelCall' = [made |-> TRUE, outcome |-> <<outcome>>]
    /\ UNCHANGED event

(***************************************************************************)
(* src/components/LayerComposer/useLayerComposerState.ts.  A layer is      *)
(* [id, x, y]; layers, history, historyIndex and selectedLayerIds are the  *)
(* hook's useState cells.  A handler reads the cells of the render it was  *)
(* created in (its closure) and its set...() calls take effect together.   *)
(***************************************************************************)
Closure == [layers |-> layers, history |-> history, historyIndex |-> historyIndex,
            selectedLayerIds |-> selectedLayerIds]

Contains(seq, x) == \E i \in 1..Len(seq) : seq[i] = x

\* seq.filter(keep) is SelectSeq(seq, keep)

\* layers.filter(l => selectedLayerIds.includes(l.id))
selectedLayers(c) ==
    LET isSelected(l) == Contains(c.selectedLayerIds, l.id)
    IN  SelectSeq(c.layers, isSelected)

canUndo(c) == c.historyIndex > 0
canRedo(c) == c.historyIndex < Len(c.history) - 1

\* pushHistory without history.slice(0, historyIndex + 1)
pushHistoryKeepsRedo(c, newLayers) ==
    LET newHistory == Append(c.history, newLayers)
    IN  [history |-> newHistory, historyIndex |-> Len(newHistory) - 1]

\* pushHistory(newLayers): the history and index it sets
pushHistory(c, newLayers) ==
    LET newHistory == Append(SubSeq(c.history, 1, c.historyIndex + 1), newLayers)
    IN  [history |-> newHistory, historyIndex |-> Len(newHistory) - 1]

\* the cells after setLayers(newLayers); pushHistory(newLayers); setSelectedLayerIds(ids)
Committed(c, newLayers, ids) ==
    [layers |-> newLayers, history |-> pushHistory(c, newLayers).history,
     historyIndex |-> pushHistory(c, newLayers).historyIndex, selectedLayerIds |-> ids]

\* the cells after setLayers(newLayers); setSelectedLayerIds(ids), with no pushHistory
Uncommitted(c, newLayers, ids) ==
    [layers |-> newLayers, history |-> c.history, historyIndex |-> c.historyIndex,
     selectedLayerIds |-> ids]

handleUndo(c) ==
    IF canUndo(c)
    THEN [c EXCEPT !.historyIndex = c.historyIndex - 1,
                   !.layers = c.history[(c.historyIndex - 1) + 1],
                   !.selectedLayerIds = <<>>]
    ELSE c

\* handleRedo without its setLayers(history[newIndex])
handleRedoKeepsLayers(c) ==
    IF canRedo(c)
    THEN [c EXCEPT !.historyIndex = c.historyIndex + 1, !.selectedLayerIds = <<>>]
    ELSE c

handleRedo(c) ==
    IF canRedo(c)
    THEN [c EXCEPT !.historyIndex = c.historyIndex + 1,
                   !.layers = c.history[(c.historyIndex + 1) + 1],
                   !.selectedLayerIds = <<>>]
    ELSE c

\* addLayer(layer) with nanoid() = id
addLayer(c, layer, id) ==
    LET newLayer == [layer EXCEPT !.id = id]
    IN  Committed(c, Append(c.layers, newLayer), <<id>>)

\* { ...l, ...props }
Merge(l, props) == [f \in DOMAIN l |-> IF f \in DOMAIN props THEN props[f] ELSE l[f]]

\* updates.find(u => u.id === l.id): <<>> for undefined
FindUpdate(updates, id) ==
    LET hits == {i \in 1..Len(updates) : updates[i].id = id}
    IN  IF hits = {} THEN <<>> ELSE <<updates[CHOOSE i \in hits : \A j \in hits : i <= j]>>

\* updateLayers passing the layers of the closure to pushHistory
updateLayersRecordsOld(c, updates, isFinalChange) ==
    LET newLayers == [i \in 1..Len(c.layers) |->
                        LET update == FindUpdate(updates, c.layers[i].id)
                        IN  IF update # <<>> THEN Merge(c.layers[i], update[1].props)
                            ELSE c.layers[i]]
    IN  IF isFinalChange
        THEN [layers |-> newLayers, history |-> pushHistory(c, c.layers).history,
              historyIndex |-> pushHistory(c, c.layers).historyIndex,
              selectedLayerIds |-> c.selectedLayerIds]
        ELSE Uncommitted(c, newLayers, c.selectedLayerIds)

updateLayers(c, updates, isFinalChange) ==
    LET newLayers == [i \in 1..Len(c.layers) |->
                        LET update == FindUpdate(updates, c.layers[i].id)
                        IN  IF update # <<>> THEN Merge(c.layers[i], update[1].props)
                            ELSE c.layers[i]]
    IN  IF isFinalChange THEN Committed(c, newLayers, c.selectedLayerIds)
        ELSE Uncommitted(c, newLayers, c.selectedLayerIds)

handleLayerDelete(c, id) ==
    LET keepLayer(l) == l.id # id
        keepId(pid) == pid # id
    IN  Committed(c, SelectSeq(c.layers, keepLayer), SelectSeq(c.selectedLayerIds, keepId))

deleteSelectedLayers(c) ==
    LET keepLayer(l) == ~Contains(c.selectedLayerIds, l.id)
    IN  IF Len(c.selectedLayerIds) = 0 THEN c
        ELSE Committed(c, SelectSeq(c.layers, keepLayer), <<>>)

handleLayersReorder(c, reorderedLayers) ==
    Committed(c, reorderedLayers, c.selectedLayerIds)

DuplicateOffset == 20

\* layers.find(l => l.id === id): <<>> for undefined
FindLayer(ls, id) ==
    LET hits == {i \in 1..Len(ls) : ls[i].id = id}
    IN  IF hits = {} THEN <<>> ELSE <<ls[CHOOSE i \in hits : \A j \in hits : i <= j]>>

\* the copy made of a layer by duplicateLayer and duplicateSelectedLayers
DuplicateOf(layer, id) ==
    [layer EXCEPT !.id = id, !.x = layer.x + DuplicateOffset, !.y = layer.y + DuplicateOffset]

\* duplicateLayer(id) with nanoid() = newId; it throws when there is no such layer
duplicateLayer(c, id, newId) ==
    LET layer == FindLayer(c.layers, id)
    IN  IF layer = <<>> THEN c
        ELSE Committed(c, Append(c.layers, DuplicateOf(layer[1], newId)), <<newId>>)

Reverse(seq) == [i \in 1..Len(seq) |-> seq[Len(seq) + 1 - i]]

\* ls.splice(index, 0, item), index counted from 0
Splice(ls, index, item) ==
    SubSeq(ls, 1, index) \o <<item>> \o SubSeq(ls, index + 1, Len(ls))

\* the loop of duplicateSelectedLayers over layersToDuplicate, from its k-th element;
\* nanoid() gives firstId, firstId + 1, ...
RECURSIVE DuplicateLoop(_, _, _, _, _)
DuplicateLoop(newLayers, layersToDuplicate, k, index, firstId) ==
    IF k > Len(layersToDuplicate) THEN newLayers
    ELSE DuplicateLoop(
            Splice(newLayers, index, DuplicateOf(layersToDuplicate[k], firstId + k - 1)),
            layersToDuplicate, k + 1, index, firstId)

duplicateSelectedLayers(c, firstId) ==
    LET sel == selectedLayers(c)
        topMostSelectedIndex ==
            (CHOOSE i \in 1..Len(c.layers) :
                /\ c.layers[i].id = sel[1].id
                /\ \A j \in 1..(i - 1) : c.layers[j].id # sel[1].id) - 1
        layersToDuplicate == Reverse(sel)
        newSelectedIds == [k \in 1..Len(sel) |-> firstId + k - 1]
    IN  IF Len(sel) = 0 THEN c
        ELSE Committed(c, DuplicateLoop(c.layers, layersToDuplicate, 1,
                                        topMostSelectedIndex, firstId),
                       newSelectedIds)

\* handleDuplicateForDrag with a pushHistory(newLayers)
handleDuplicateForDragRecords(c, firstId) ==
    LET sel == selectedLayers(c)
        clones == [k \in 1..Len(sel) |-> [sel[k] EXCEPT !.id = firstId + k - 1]]
    IN  IF Len(sel) = 0 THEN c
        ELSE Committed(c, c.layers \o clones, [k \in 1..Len(clones) |-> clones[k].id])

\* handleDuplicateForDrag() with nanoid() = firstId, firstId + 1, ...
handleDuplicateForDrag(c, firstId) ==
    LET sel == selectedLayers(c)
        clones == [k \in 1..Len(sel) |-> [sel[k] EXCEPT !.id = firstId + k - 1]]
    IN  IF Len(sel) = 0 THEN c
        ELSE Uncommitted(c, c.layers \o clones, [k \in 1..Len(clones) |-> clones[k].id])

\* the reset without its setHistoryIndex(-1)
ResetCanvasKeepsIndex(c) == [c EXCEPT !.layers = <<>>, !.history = <<>>]

\* handleCreateNew and handleCloseAndReset: setLayers([]); setHistory([]); setHistoryIndex(-1)
ResetCanvas(c) == [c EXCEPT !.layers = <<>>, !.history = <<>>, !.historyIndex = 0 - 1]

(***************************************************************************)
(* The operations of the layer composer, each run from the current render. *)
(***************************************************************************)
Apply(r) ==
    /\ layers' = r.layers
    /\ history' = r.history
    /\ historyIndex' = r.historyIndex
    /\ selectedLayerIds' = r.selectedLayerIds

\* a recording operation is taken while the history has room for its snapshot
HistoryHasRoom == historyIndex + 2 <= MaxHistory

LayerIds == {layers[i].id : i \in 1..Len(layers)}

Coords == 1..MaxCoord

HandleCreateNew ==
    /\ UNCHANGED <<creditVars, creatorVars, handlerVars, loads, app>>
    /\ Apply(ResetCanvas(Closure))
    /\ canvasInitialized' = TRUE
    /\ lastOp' = [name |-> "handleCreateNew", acted |-> TRUE]
    /\ UNCHANGED nextId

HandleCloseAndReset ==
    /\ UNCHANGED <<creditVars, creatorVars, handlerVars, loads, app>>
    /\ Apply(ResetCanvas(Closure))
    /\ canvasInitialized' = FALSE
    /\ lastOp' = [name |-> "handleCloseAndReset", acted |-> TRUE]
    /\ UNCHANGED nextId

\* the selection made by clicking layers: setSelectedLayerIds
SetSelectedLayerIds(ids) ==
    /\ UNCHANGED <<creditVars, creatorVars, handlerVars, loads, app>>
    /\ ids # selectedLayerIds
    /\ Apply([Closure EXCEPT !.selectedLayerIds = ids])
    /\ lastOp' = [name |-> "setSelectedLayerIds", acted |-> TRUE]
    /\ UNCHANGED <<nextId, canvasInitialized>>

\* handleAddText: addLayer of a layer at a fixed place
AddLayer ==
    /\ UNCHANGED <<creditVars, creatorVars, handlerVars, loads, app>>
    /\ nextId < MaxIds
    /\ HistoryHasRoom
    /\ Apply(addLayer(Closure, [id |-> 0, x |-> 0, y |-> 0], nextId + 1))
    /\ nextId' = nextId + 1
    /\ lastOp' = [name |-> "addLayer", acted |-> TRUE]
    /\ UNCHANGED canvasInitialized

UpdateLayers(updates, isFinalChange) ==
    /\ UNCHANGED <<creditVars, creatorVars, handlerVars, loads, app>>
    /\ isFinalChange => HistoryHasRoom
    /\ Apply(updateLayers(Closure, updates, isFinalChange))
    /\ lastOp' = [name |-> "updateLayers", acted |-> isFinalChange]
    /\ UNCHANGED <<nextId, canvasInitialized>>

HandleLayerDelete(id) ==
    /\ UNCHANGED <<creditVars, creatorVars, handlerVars, loads, app>>
    /\ HistoryHasRoom
    /\ Apply(handleLayerDelete(Closure, id))
    /\ lastOp' = [name |-> "handleLayerDelete", acted |-> TRUE]
    /\ UNCHANGED <<nextId, canvasInitialized>>

DeleteSelectedLayers ==
    /\ UNCHANGED <<creditVars, creatorVars, handlerVars, loads, app>>
    /\ HistoryHasRoom
    /\ Apply(deleteSelectedLayers(Closure))
    /\ lastOp' = [name |-> "deleteSelectedLayers", acted |-> Len(selectedLayerIds) # 0]
    /\ UNCHANGED <<nextId, canvasInitialized>>

HandleLayersReorder(reorderedLayers) ==
    /\ UNCHANGED <<creditVars, creatorVars, handlerVars, loads, app>>
    /\ HistoryHasRoom
    /\ Apply(handleLayersReorder(Closure, reorderedLayers))
    /\ lastOp' = [name |-> "handleLayersReorder", acted |-> TRUE]
    /\ UNCHANGED <<nextId, canvasInitialized>>

DuplicateLayer(id) ==
    /\ UNCHANGED <<creditVars, creatorVars, handlerVars, loads, app>>
    /\ nextId < MaxIds
    /\ HistoryHasRoom
    /\ Apply(duplicateLayer(Closure, id, nextId + 1))
    /\ nextId' = nextId + 1
    /\ lastOp' = [name |-> "duplicateLayer", acted |-> TRUE]
    /\ UNCHANGED canvasInitialized

DuplicateSelectedLayers ==
    /\ UNCHANGED <<creditVars, creatorVars, handlerVars, loads, app>>
    /\ nextId + Len(selectedLayers(Closure)) <= MaxIds
    /\ HistoryHasRoom
    /\ Apply(duplicateSelectedLayers(Closure, nextId + 1))
    /\ nextId' = nextId + Len(selectedLayers(Closure))
    /\ lastOp' = [name |-> "duplicateSelectedLayers",
                  acted |-> Len(selectedLayers(Closure)) # 0]
    /\ UNCHANGED canvasInitialized

HandleDuplicateForDrag ==
    /\ UNCHANGED <<creditVars, creatorVars, handlerVars, loads, app>>
    /\ nextId + Len(selectedLayers(Closure)) <= MaxIds
    /\ Apply(handleDuplicateForDrag(Closure, nextId + 1))
    /\ nextId' = nextId + Len(selectedLayers(Closure))
    /\ lastOp' = [name |-> "handleDuplicateForDrag", acted |-> FALSE]
    /\ UNCHANGED canvasInitialized

HandleUndo ==
    /\ UNCHANGED <<creditVars, creatorVars, handlerVars, loads, app>>
    /\ Apply(handleUndo(Closure))
    /\ lastOp' = [name |-> "handleUndo", acted |-> canUndo(Closure)]
    /\ UNCHANGED <<nextId, canvasInitialized>>

HandleRedo ==
    /\ UNCHANGED <<creditVars, creatorVars, handlerVars, loads, app>>
    /\ Apply(handleRedo(Closure))
    /\ lastOp' = [name |-> "handleRedo", acted |-> canRedo(Closure)]
    /\ UNCHANGED <<nextId, canvasInitialized>>

(***************************************************************************)
(* The specifications.  Each part starts the others at rest and leaves     *)
(* them alone.                                                             *)
(***************************************************************************)
(***************************************************************************)
(* The arithmetic of handleMultiLayerAction.  A coordinate that was never  *)
(* computed by a division is a whole number, held as an integer.  The      *)
(* results of 'distribute' are IEEE-754 binary64 values, held as           *)
(* [hi, lo, e] for (hi * 2^26 + lo) * 2^e with 2^26 <= hi < 2^27 and       *)
(* lo < 2^26 (53 significant bits), or hi = lo = e = 0 for zero.  The      *)
(* operators cover the non-negative values below 2^26 and divisors up to   *)
(* 15, and round to nearest, ties to even, as the JavaScript operators do. *)
(***************************************************************************)
\* Binary64 that never rounds up
Binary64RoundsDown(hi, lo, e, roundUp) == [hi |-> hi, lo |-> lo, e |-> e]

\* the binary64 value of the 53 bits hi, lo at exponent e, one unit in the
\* last place higher when the dropped bits round up
Binary64(hi, lo, e, roundUp) ==
    LET lo1 == IF roundUp THEN lo + 1 ELSE lo
        hi1 == IF lo1 = 2^26 THEN hi + 1 ELSE hi
    IN  IF hi1 = 2^27 THEN [hi |-> 2^26, lo |-> 0, e |-> e + 1]
        ELSE [hi |-> hi1, lo |-> lo1 % 2^26, e |-> e]

\* t / d for whole numbers t >= 0 and d >= 1
JsDivide(t, d) ==
    LET u == CHOOSE u \in 0..30 : d * 2^26 <= t * 2^u /\ t * 2^u < d * 2^27
        hi == (t * 2^u) \div d
        r1 == (t * 2^u) % d
        lo == (r1 * 2^26) \div d
        r2 == (r1 * 2^26) % d
    IN  IF t = 0 THEN [hi |-> 0, lo |-> 0, e |-> 0]
        ELSE Binary64(hi, lo, 0 - (u + 26), 2 * r2 > d \/ (2 * r2 = d /\ lo % 2 = 1))

\* k + gap * i for whole numbers k >= 0 and i >= 0 and a binary64 gap: the
\* product is rounded, then the sum
JsAddProduct(k, gap, i) ==
    LET BitLength(v) == CHOOSE b \in 1..31 : v \div 2^(b - 1) = 1
        RoundUp(dropped, bits, odd) ==
            bits > 0 /\ (2 * dropped > 2^bits \/ (2 * dropped = 2^bits /\ odd))
        Zero == [hi |-> 0, lo |-> 0, e |-> 0]
        \* gap * i
        plo == (gap.lo * i) % 2^26
        phi == gap.hi * i + (gap.lo * i) \div 2^26
        sh == BitLength(phi) - 27
        lo2 == plo \div 2^sh + (phi % 2^sh) * 2^(26 - sh)
        x == IF i = 0 \/ gap = Zero THEN Zero
             ELSE Binary64(phi \div 2^sh, lo2, gap.e + sh, RoundUp(plo % 2^sh, sh, lo2 % 2 = 1))
        \* k + x
        fh == (0 - x.e) - 26
        whole == k + x.hi \div 2^fh
        frac == x.hi % 2^fh
        db == BitLength(whole) - (27 - fh)
        lo3 == (frac % 2^db) * 2^(26 - db) + x.lo \div 2^db
        hi3 == whole * 2^(27 - BitLength(whole)) + frac \div 2^db
    IN  IF x = Zero
        THEN IF k = 0 THEN Zero
             ELSE [hi |-> k * 2^(27 - BitLength(k)), lo |-> 0, e |-> BitLength(k) - 53]
        ELSE IF k = 0 THEN x
        ELSE Binary64(hi3, lo3, x.e + db, RoundUp(x.lo % 2^db, db, lo3 % 2 = 1))

\* handleMultiLayerAction with no guard, and no action but 'delete'
handleMultiLayerActionDeletes(c, action, firstId) ==
    IF action = "delete" THEN deleteSelectedLayers(c) ELSE c

\* handleMultiLayerAction(action) with nanoid() = firstId, firstId + 1, ...:
\* the guard, and past it the actions that work on x and y alone or call
\* deleteSelectedLayers and duplicateSelectedLayers.  x and y are binary64
\* values that hold whole numbers when the handler is called; the sort is
\* stable.
handleMultiLayerAction(c, action, firstId) ==
    LET sel == selectedLayers(c)
        n == Len(sel)
        \* the whole number a binary64 value holds
        Whole(v) == IF v.hi = 0 THEN 0 ELSE v.hi \div 2^((0 - v.e) - 26)
        Min(f) == CHOOSE v \in {sel[k][f] : k \in 1..n} :
                    \A k \in 1..n : Whole(v) <= Whole(sel[k][f])
        Aligned(f) == [k \in 1..n |-> [id |-> sel[k].id, props |-> (f :> Min(f))]]
        Rank(f, k) == 1 + Cardinality({j \in 1..n :
                            \/ Whole(sel[j][f]) < Whole(sel[k][f])
                            \/ Whole(sel[j][f]) = Whole(sel[k][f]) /\ j < k})
        Sorted(f) == [p \in 1..n |-> sel[CHOOSE k \in 1..n : Rank(f, k) = p]]
        Distributed(f) ==
            LET sorted == Sorted(f)
                total == Whole(sorted[n][f]) - Whole(sorted[1][f])
                gap == JsDivide(total, n - 1)
            IN  IF n > 2
                THEN [p \in 1..n |->
                        [id |-> sorted[p].id,
                         props |-> (f :> JsAddProduct(Whole(sorted[1][f]), gap, p - 1))]]
                ELSE <<>>
        updates == CASE action = "align-left" -> Aligned("x")
                     [] action = "align-top" -> Aligned("y")
                     [] action = "distribute-horizontal" -> Distributed("x")
                     [] action = "distribute-vertical" -> Distributed("y")
    IN  IF n < 2 THEN c
        ELSE CASE action = "delete" -> deleteSelectedLayers(c)
               [] action = "duplicate" -> duplicateSelectedLayers(c, firstId)
               [] action \in {"align-left", "align-top",
                              "distribute-horizontal", "distribute-vertical"} ->
                    IF Len(updates) > 0 THEN updateLayers(c, updates, TRUE) ELSE c

\* handleMultiLayerAction(action).  With two or more layers selected,
\* 'merge' and 'export' draw on a canvas, the four alignments other than
\* left and top read the layers' sizes, and 'duplicate' is the
\* DuplicateSelectedLayers of the composer: those are taken only with fewer
\* than two layers selected, where the handler returns at its first line.
HandleMultiLayerAction(action) ==
    LET n == Len(selectedLayers(Closure))
        r == handleMultiLayerAction(Closure, action, nextId + 1)
    IN  /\ UNCHANGED <<creditVars, creatorVars, handlerVars, loads, app>>
        /\ action \in {"align-left", "align-center", "align-right", "align-top",
                       "align-middle", "align-bottom", "distribute-horizontal",
                       "distribute-vertical", "merge", "delete", "duplicate", "export"}
        /\ n >= 2 => action \in {"align-left", "align-top", "distribute-horizontal",
                                 "distribute-vertical", "delete"}
        /\ Apply(r)
        /\ lastOp' = [name |-> action, acted |-> r.history # history]
        /\ UNCHANGED <<nextId, canvasInitialized>>

(***************************************************************************)
(* The asynchronous layer additions.  handleFileSelected, handleAddImage   *)
(* and onGenerateAILayer return before the layer is added; the callback    *)
(* that adds it calls the addLayer of the render they were called in.      *)
(***************************************************************************)
\* handleFileSelected with n image files: one FileReader each, whose onload
\* calls this render's handleAddImage, whose img.onload calls its addLayer
HandleFileSelected(n) ==
    /\ UNCHANGED <<creditVars, creatorVars, handlerVars, app>>
    /\ n >= 1 /\ Len(loads) + n <= MaxLoads
    /\ loads' = loads \o [k \in 1..n |-> [kind |-> "file", closure |-> Closure]]
    /\ lastOp' = [name |-> "handleFileSelected", acted |-> FALSE]
    /\ UNCHANGED <<layers, history, historyIndex, selectedLayerIds, nextId, canvasInitialized>>

\* onGenerateAILayer up to await generateFromMultipleImages(...)
OnGenerateAILayer ==
    /\ UNCHANGED <<creditVars, creatorVars, handlerVars, app>>
    /\ Len(loads) < MaxLoads
    /\ loads' = Append(loads, [kind |-> "ai", closure |-> Closure])
    /\ lastOp' = [name |-> "onGenerateAILayer", acted |-> FALSE]
    /\ UNCHANGED <<layers, history, historyIndex, selectedLayerIds, nextId, canvasInitialized>>

\* a pending addition settles: the image has loaded, or the image service
\* has resolved, and addLayer runs; or the load fails, or the service
\* rejects, and no layer is added
LoadSettles(i, ok) ==
    /\ UNCHANGED <<creditVars, creatorVars, handlerVars, app>>
    /\ i \in 1..Len(loads)
    /\ loads' = SubSeq(loads, 1, i - 1) \o SubSeq(loads, i + 1, Len(loads))
    /\ lastOp' = [name |-> "loadSettles", acted |-> ok]
    /\ UNCHANGED canvasInitialized
    /\ IF ok
       THEN /\ nextId < MaxIds
            /\ loads[i].closure.historyIndex + 2 <= MaxHistory
            /\ Apply(addLayer(loads[i].closure, [id |-> 0, x |-> 0, y |-> 0], nextId + 1))
            /\ nextId' = nextId + 1
       ELSE UNCHANGED <<layers, history, historyIndex, selectedLayerIds, nextId>>

(***************************************************************************)
(* App.tsx.  name and phone are texts; file, resultImage and error are     *)
(* TRUE when set; hasSelectedKey is <<>>, <<TRUE>> or <<FALSE>>.  pc is    *)
(* the await handleSubmit is suspended at, sent the number of requests to  *)
(* /.netlify/functions/generate so far, step the last operation.           *)
(***************************************************************************)
InitialApp ==
    [activeTab |-> "nameplate", name |-> <<>>, phone |-> <<>>, file |-> FALSE,
     loading |-> FALSE, resultImage |-> FALSE, error |-> FALSE, hasSelectedKey |-> Null,
     aistudio |-> FALSE, pc |-> "idle", sent |-> 0, step |-> "none"]

\* the tab buttons and the onChange handlers of the name and phone inputs;
\* the form is rendered unless hasSelectedKey === false
EditForm(field, value) ==
    /\ UNCHANGED <<creditVars, creatorVars, handlerVars, composerVars, loads>>
    /\ app.hasSelectedKey # <<FALSE>>
    /\ \/ /\ field = "activeTab" /\ value \in {"nameplate", "calendar"}
          /\ app' = [app EXCEPT !.activeTab = value, !.resultImage = FALSE, !.step = "setActiveTab"]
       \/ /\ field = "name" /\ value \in Seq({" ", "a"})
          /\ app' = [app EXCEPT !.name = value, !.step = "setName"]
       \/ /\ field = "phone" /\ value \in Seq({" ", "1"})
          /\ app' = [app EXCEPT !.phone = value, !.step = "setPhone"]

HandleFileChange(isImage) ==
    /\ UNCHANGED <<creditVars, creatorVars, handlerVars, composerVars, loads>>
    /\ app.hasSelectedKey # <<FALSE>>
    /\ app' = IF ~isImage THEN [app EXCEPT !.error = TRUE, !.step = "handleFileChange"]
              ELSE [app EXCEPT !.file = TRUE, !.error = FALSE, !.step = "handleFileChange"]

\* handleSubmit with setLoading(true) ahead of the validation
HandleSubmitLoadsFirst ==
    /\ UNCHANGED <<creditVars, creatorVars, handlerVars, composerVars, loads>>
    /\ app.hasSelectedKey # <<FALSE>>
    /\ ~app.loading
    /\ app.sent < MaxRequests
    /\ LET cleared == [app EXCEPT !.error = FALSE, !.resultImage = FALSE, !.step = "handleSubmit"]
           invalid == [cleared EXCEPT !.error = TRUE, !.loading = TRUE]
       IN  app' = IF app.activeTab = "nameplate" /\ TrimStart(app.name) = <<>> THEN invalid
                  ELSE IF app.activeTab = "nameplate" /\ TrimStart(app.phone) = <<>> THEN invalid
                  ELSE IF ~app.file THEN invalid
                  ELSE [cleared EXCEPT !.loading = TRUE, !.pc = "awaitFetch", !.sent = @ + 1]

\* handleSubmit up to its first await; the submit button is disabled while loading
HandleSubmit ==
    /\ UNCHANGED <<creditVars, creatorVars, handlerVars, composerVars, loads>>
    /\ app.hasSelectedKey # <<FALSE>>
    /\ ~app.loading
    /\ app.sent < MaxRequests
    /\ LET cleared == [app EXCEPT !.error = FALSE, !.resultImage = FALSE, !.step = "handleSubmit"]
           invalid == [cleared EXCEPT !.error = TRUE]
       IN  app' = IF app.activeTab = "nameplate" /\ TrimStart(app.name) = <<>> THEN invalid
                  ELSE IF app.activeTab = "nameplate" /\ TrimStart(app.phone) = <<>> THEN invalid
                  ELSE IF ~app.file THEN invalid
                  ELSE [cleared EXCEPT !.loading = TRUE, !.pc = "awaitFetch", !.sent = @ + 1]

\* await fetch(...) settles; a rejection runs the catch and the finally block
FetchSettles(ok) ==
    /\ UNCHANGED <<creditVars, creatorVars, handlerVars, composerVars, loads>>
    /\ app.pc = "awaitFetch"
    /\ app' = IF ok THEN [app EXCEPT !.pc = "awaitJson", !.step = "fetch"]
              ELSE [app EXCEPT !.error = TRUE, !.loading = FALSE, !.pc = "idle", !.step = "fetch"]

\* await response.json() settles: outcome is "rejected", or says whether
\* response.ok held and what data holds
JsonSettles(outcome) ==
    /\ UNCHANGED <<creditVars, creatorVars, handlerVars, composerVars, loads>>
    /\ app.pc = "awaitJson"
    /\ outcome \in {"rejected", "ok with image", "ok without image",
                    "not ok: entity not found", "not ok: other error", "not ok: no error"}
    /\ LET after == [app EXCEPT !.step = "json"]
           finally(a) == [a EXCEPT !.loading = FALSE, !.pc = "idle"]
       IN  app' = CASE outcome = "ok with image" -> finally([after EXCEPT !.resultImage = TRUE])
                    [] outcome = "ok without image" -> finally([after EXCEPT !.resultImage = FALSE])
                    [] outcome = "not ok: entity not found" ->
                         \* setHasSelectedKey(false); await handleOpenSelectKey(); return
                         IF app.aistudio
                         THEN [after EXCEPT !.hasSelectedKey = <<FALSE>>, !.pc = "awaitOpenSelectKey"]
                         ELSE finally([after EXCEPT !.hasSelectedKey = <<FALSE>>])
                    [] OTHER -> finally([after EXCEPT !.error = TRUE])

\* await window.aistudio.openSelectKey() settles inside handleOpenSelectKey,
\* called from handleSubmit: setHasSelectedKey(true), return, finally
OpenSelectKeySettles(ok) ==
    /\ UNCHANGED <<creditVars, creatorVars, handlerVars, composerVars, loads>>
    /\ app.pc = "awaitOpenSelectKey"
    /\ app' = IF ok THEN [app EXCEPT !.hasSelectedKey = <<TRUE>>, !.loading = FALSE,
                                      !.pc = "idle", !.step = "openSelectKey"]
              ELSE [app EXCEPT !.error = TRUE, !.loading = FALSE,
                               !.pc = "idle", !.step = "openSelectKey"]

CreditsAtRest == localStorage = [k \in Keys |-> Null] /\ lastCall = NoCall
CreatorsAtRest == appState = [c \in SingleImageCreators |-> InitialAppState] /\ attempts = <<>>
HandlerAtRest ==
    /\ event = NoEvent /\ response = Null /\ modelCall = NoModelCall
    /\ app = InitialApp
ComposerAtRest ==
    /\ layers = <<>> /\ history = <<>> /\ historyIndex = 0 - 1 /\ selectedLayerIds = <<>>
    /\ canvasInitialized = FALSE /\ nextId = 0
    /\ lastOp = [name |-> "none", acted |-> FALSE]
    /\ loads = <<>>

\* lib/credits.ts called directly
InitCredits ==
    /\ InitStorage /\ localStorage[UsernameKey] = Null /\ lastCall = NoCall
    /\ localStorage[BaseKey(<<"b">>)] = Null
    /\ CreatorsAtRest /\ HandlerAtRest /\ ComposerAtRest

NextCredits ==
    \/ \E u \in Usernames : GetUserCreditsCall(u)
    \/ \E u \in Usernames : DecreaseUserCreditsCall(u)
    \/ \E u \in Usernames, v \in {<<>>} \cup {<<n>> : n \in ConfigNumbers} :
            ResetUserCreditsCall(u, v)
    \/ \E u \in Usernames : RemoveCreditsItem(u)

SpecCredits == InitCredits /\ [][NextCredits]_vars

\* lib/credits.ts with no resetUserCredits call and no removal of the stored balance
NextCreditsNoReset ==
    \/ \E u \in Usernames : GetUserCreditsCall(u)
    \/ \E u \in Usernames : DecreaseUserCreditsCall(u)

SpecCreditsNoReset == InitCredits /\ [][NextCreditsNoReset]_vars

\* the two creators of one browser profile
InitCreators ==
    /\ InitStorage /\ lastCall = NoCall
    /\ localStorage[RoleKey] = Null
    /\ localStorage[BaseKey(<<"b">>)] = Null
    /\ CreatorsAtRest /\ HandlerAtRest /\ ComposerAtRest

NextCreators ==
    \/ \E c \in Creators : HandleImageSelectedForUploader(c)
    \/ \E c \in Creators : HandleOptionChange(c)
    \/ \E c \in Creators : HandleBackToOptions(c)
    \/ \E c \in Creators : \E h \in HandlersOf(c) : InvokeHandler(c, h)
    \/ \E i \in 1..MaxAttempts, ok \in BOOLEAN : QrSettles(i, ok)
    \/ \E i \in 1..MaxAttempts, ok \in BOOLEAN : ServiceSettles(i, ok)
    \/ \E i \in 1..MaxAttempts : EmbedSettles(i)

SpecCreators == InitCreators /\ [][NextCreators]_vars

\* the three single-image creators, for a logged-in user with 0, 1 or the default credits
InitStages ==
    /\ InitCreators
    /\ localStorage[UsernameKey] = <<<<"a">>>>
    /\ localStorage[BaseKey(<<"a">>)] \in {Null, <<<<"0">>>>, <<<<"1">>>>}

NextStages ==
    \/ \E c \in SingleImageCreators : HandleImageSelectedForUploader(c)
    \/ \E c \in SingleImageCreators : HandleOptionChange(c)
    \/ \E c \in SingleImageCreators : HandleBackToOptions(c)
    \/ \E c \in Creators : \E h \in HandlersOf(c) : InvokeHandler(c, h)
    \/ \E h \in {"executeInitialGeneration", "handleRegeneration"} : InvokeToyHandler(h)
    \/ \E i \in 1..MaxAttempts, ok \in BOOLEAN : QrSettles(i, ok)
    \/ \E i \in 1..MaxAttempts, ok \in BOOLEAN : ServiceSettles(i, ok)
    \/ \E i \in 1..MaxAttempts, ok \in BOOLEAN : ToyServiceSettles(i, ok)
    \/ \E i \in 1..MaxAttempts : EmbedSettles(i)

\* a promise that has resolved has its continuation run by the event loop
SpecStages ==
    /\ InitStages /\ [][NextStages]_vars
    /\ \A i \in 1..MaxAttempts : WF_vars(EmbedSettles(i))

\* the serverless function
InitHandler == CreditsAtRest /\ CreatorsAtRest /\ HandlerAtRest /\ ComposerAtRest

NextHandler ==
    \/ \E e \in Events : HandlerStart(e)
    \/ \E o \in ModelOutcomes : ModelSettles(o)

SpecHandler == InitHandler /\ [][NextHandler]_vars

\* the layer composer
InitComposer == CreditsAtRest /\ CreatorsAtRest /\ HandlerAtRest /\ ComposerAtRest

\* the orders the layer list can be dragged into
Reorderings ==
    {r \in [1..Len(layers) -> {layers[i] : i \in 1..Len(layers)}] :
        \A i \in 1..Len(layers) : \E j \in 1..Len(layers) : r[j] = layers[i]}

\* the selections: current layers, in the order of the list
Selections == {SelectSeq([i \in 1..MaxIds |-> i], LAMBDA id : id \in S) : S \in SUBSET LayerIds}

NextComposer ==
    \/ HandleCreateNew
    \/ HandleCloseAndReset
    \/ \E ids \in Selections : SetSelectedLayerIds(ids)
    \/ AddLayer
    \/ \E id \in LayerIds, v \in Coords, final \in BOOLEAN :
            UpdateLayers(<<[id |-> id, props |-> [x |-> v]]>>, final)
    \/ \E id \in LayerIds : HandleLayerDelete(id)
    \/ DeleteSelectedLayers
    \/ \E r \in Reorderings : HandleLayersReorder(r)
    \/ \E id \in LayerIds : DuplicateLayer(id)
    \/ DuplicateSelectedLayers
    \/ HandleDuplicateForDrag
    \/ HandleUndo
    \/ HandleRedo

SpecComposer == InitComposer /\ [][NextComposer]_vars

\* the layer composer with asynchronous additions among the user's edits
NextLoader ==
    \/ HandleCreateNew
    \/ AddLayer
    \/ \E id \in LayerIds, v \in Coords : UpdateLayers(<<[id |-> id, props |-> [x |-> v]]>>, TRUE)
    \/ \E id \in LayerIds : HandleLayerDelete(id)
    \/ \E n \in 1..MaxLoads : HandleFileSelected(n)
    \/ OnGenerateAILayer
    \/ \E i \in 1..MaxLoads, ok \in BOOLEAN : LoadSettles(i, ok)

SpecLoader == InitComposer /\ [][NextLoader]_vars

\* handleMultiLayerAction applied once to a canvas of up to MaxLayers
\* layers, added one after another at three places, at most MaxBetween of
\* them at the place whose x lies between the other two, with none, the
\* first, all but the last or all of them selected
InitArrange ==
    LET Number(k) ==
            LET bits == CHOOSE b \in 1..31 : k \div 2^(b - 1) = 1
            IN  IF k = 0 THEN [hi |-> 0, lo |-> 0, e |-> 0]
                ELSE [hi |-> k * 2^(27 - bits), lo |-> 0, e |-> bits - 53]
    IN  /\ CreditsAtRest /\ CreatorsAtRest /\ HandlerAtRest
        /\ loads = <<>> /\ canvasInitialized = TRUE
        /\ \E count \in 0..MaxLayers :
             /\ \E places \in [1..count -> {[x |-> 0, y |-> MaxX], [x |-> 10, y |-> 0],
                                            [x |-> MaxX, y |-> 10]}] :
                    /\ Cardinality({i \in 1..count : places[i].x = 10}) <= MaxBetween
                    /\ layers = [i \in 1..count |-> [id |-> i, x |-> Number(places[i].x),
                                                     y |-> Number(places[i].y)]]
             /\ history = [k \in 1..count |-> SubSeq(layers, 1, k)]
             /\ historyIndex = count - 1
             /\ nextId = count
             /\ \E selected \in {0, 1, count - 1, count} \cap 0..count :
                    selectedLayerIds = [k \in 1..selected |-> k]
        /\ lastOp = [name |-> "setSelectedLayerIds", acted |-> TRUE]

NextArrange ==
    /\ lastOp.name = "setSelectedLayerIds"
    /\ \E action \in {"align-left", "align-center", "align-right", "align-top",
                      "align-middle", "align-bottom", "distribute-horizontal",
                      "distribute-vertical", "merge", "delete", "duplicate", "export"} :
            HandleMultiLayerAction(action)

SpecArrange == InitArrange /\ [][NextArrange]_vars

\* App with or without window.aistudio
InitApp ==
    /\ CreditsAtRest /\ CreatorsAtRest /\ ComposerAtRest
    /\ event = NoEvent /\ response = Null /\ modelCall = NoModelCall
    /\ \E a \in BOOLEAN : app = [InitialApp EXCEPT !.aistudio = a]

NextApp ==
    \/ \E t \in {"nameplate", "calendar"} : EditForm("activeTab", t)
    \/ \E n \in {<<>>, <<" ">>, <<" ", "a">>} : EditForm("name", n)
    \/ \E n \in {<<>>, <<" ">>, <<"1", " ">>} : EditForm("phone", n)
    \/ \E isImage \in BOOLEAN : HandleFileChange(isImage)
    \/ HandleSubmit
    \/ \E ok \in BOOLEAN : FetchSettles(ok)
    \/ \E outcome \in {"rejected", "ok with image", "ok without image",
                       "not ok: entity not found", "not ok: other error", "not ok: no error"} :
          JsonSettles(outcome)
    \/ \E ok \in BOOLEAN : OpenSelectKeySettles(ok)

SpecApp == InitApp /\ [][NextApp]_vars

(***************************************************************************)
(* Properties of lib/credits.ts, checked under SpecCredits (C2: under      *)
(* SpecCreditsNoReset).  lastCall names the call a step made, its result   *)
(* and the item it found under caotrang_credits_<username>.                *)
(***************************************************************************)
\* the number a stored balance reads as: NaN when nothing (or "") is stored
StoredBalance(store, username) ==
    LET stored == store[CreditsKey(username)]
    IN  IF Truthy(stored) THEN ParseInt(stored[1]) ELSE NaN

NotNegative(v) == IsNaN(v) \/ v[1] >= 0

\* the text of an integer: an optional sign and one or more digits
IsIntegerText(t) ==
    LET ds == IF t # <<>> /\ t[1] = "-" THEN Tail(t) ELSE t
    IN  ds # <<>> /\ \A i \in 1..Len(ds) : IsDigit(ds[i])

IntegerOf(t) ==
    IF t[1] = "-" THEN 0 - DigitsValue(Tail(t)) ELSE DigitsValue(t)

BaseSettingNotNegative(username) ==
    NotNegative(StoredBalance([localStorage EXCEPT ![CreditsKey(username)] =
                                    localStorage[BaseKey(username)]], username))

StepIs(op, username) == lastCall'.op = op /\ lastCall'.username = username

ResetValueNotNegative ==
    lastCall'.value = <<>> \/ (~IsNaN(lastCall'.value[1]) /\ lastCall'.value[1][1] >= 0)

\* C1: with the base-credit setting of a user not negative, a getUserCredits,
\* decreaseUserCredits or resetUserCredits call (no value, or a value >= 0)
\* made on a balance that is not negative leaves a stored balance >= 0; and
\* decreaseUserCredits on a stored balance of 0 stores and returns 0, on a
\* stored balance n > 0 stores and returns n - 1.
C1_BalanceNeverNegative ==
    [][\A u \in Usernames :
        /\ ( /\ \/ StepIs("getUserCredits", u)
                \/ StepIs("decreaseUserCredits", u)
                \/ StepIs("resetUserCredits", u) /\ ResetValueNotNegative
             /\ BaseSettingNotNegative(u)
             /\ NotNegative(StoredBalance(localStorage, u)) )
           => /\ ~IsNaN(StoredBalance(localStorage', u))
              /\ StoredBalance(localStorage', u)[1] >= 0
        /\ ( StepIs("decreaseUserCredits", u) /\ ~IsNaN(StoredBalance(localStorage, u)) )
           => LET n == StoredBalance(localStorage, u)[1]
              IN  /\ n = 0 => /\ lastCall'.ret = Num(0)
                              /\ localStorage'[CreditsKey(u)] = <<<<"0">>>>
                  /\ n > 0 => /\ lastCall'.ret = Num(n - 1)
                              /\ localStorage'[CreditsKey(u)] = <<NatToText(n - 1)>>
    ]_vars

\* decreaseUserCredits has been called on a stored balance of "0"
C1_Witness ==
    /\ lastCall.op = "decreaseUserCredits"
    /\ lastCall.before = <<<<"0">>>>
    /\ lastCall.ret = Num(0)
    /\ localStorage[CreditsKey(lastCall.username)] = <<<<"0">>>>

\* C2 as stated: a stored balance of "0" is returned as 0 and left alone by
\* getUserCredits, and a getUserCredits or decreaseUserCredits call never
\* leaves a stored balance higher than the one it found.
C2_NonIncreasingAsStated ==
    [][\A u \in Usernames :
        /\ ( StepIs("getUserCredits", u) /\ localStorage[CreditsKey(u)] = <<<<"0">>>> )
           => lastCall'.ret = Num(0) /\ localStorage' = localStorage
        /\ ( /\ StepIs("getUserCredits", u) \/ StepIs("decreaseUserCredits", u)
             /\ ~IsNaN(StoredBalance(localStorage, u)) )
           => /\ ~IsNaN(StoredBalance(localStorage', u))
              /\ StoredBalance(localStorage', u)[1] <= StoredBalance(localStorage, u)[1]
    ]_vars

\* C2, amended: a stored balance of "0" is returned as 0 and left alone by
\* getUserCredits, and a getUserCredits or decreaseUserCredits call that finds
\* a stored balance n >= 0 never leaves a higher one.
C2_NonIncreasingFromNonNegative ==
    [][\A u \in Usernames :
        /\ ( StepIs("getUserCredits", u) /\ localStorage[CreditsKey(u)] = <<<<"0">>>> )
           => lastCall'.ret = Num(0) /\ localStorage' = localStorage
        /\ ( /\ StepIs("getUserCredits", u) \/ StepIs("decreaseUserCredits", u)
             /\ ~IsNaN(StoredBalance(localStorage, u))
             /\ StoredBalance(localStorage, u)[1] >= 0 )
           => /\ ~IsNaN(StoredBalance(localStorage', u))
              /\ StoredBalance(localStorage', u)[1] <= StoredBalance(localStorage, u)[1]
              /\ StoredBalance(localStorage', u)[1] >= 0
    ]_vars

\* getUserCredits has read a stored balance of "0"
C2_Witness ==
    /\ lastCall.op = "getUserCredits"
    /\ lastCall.before = <<<<"0">>>>
    /\ lastCall.ret = Num(0)
    /\ localStorage[CreditsKey(lastCall.username)] = <<<<"0">>>>

\* getMaxCredits as C3 words it: the integer stored as the base setting if
\* there is one, otherwise 20 for the role "vip" and 5 in every other case
C3_Expected(username) ==
    LET base == localStorage[BaseKey(username)]
    IN  IF base # Null /\ IsIntegerText(base[1]) THEN IntegerOf(base[1])
        ELSE IF localStorage[RoleKey] = <<VipText>> THEN 20
        ELSE 5

NoCredit ==
    LET username == getCurrentUsername(localStorage)
    IN  ~Truthy(username) \/ getUserCredits(localStorage, username[1]).ret <= 0

\* the step is a handler reaching its credit check
HandlerChecksCredit == lastCall'.op \in {"getCurrentUsername", "getUserCredits"}

\* C4: when getCurrentUsername() is null or getUserCredits(username) <= 0, a
\* handler of Spring2026Creator or TetQr2026Creator that reaches its credit
\* check returns without starting an attempt (no call of the image service)
\* and without calling onStateChange; and no step taken in such a state
\* starts an attempt or turns a stage into 'generating'.
C4_CreditGate ==
    [][NoCredit =>
        /\ HandlerChecksCredit => appState' = appState /\ attempts' = attempts
        /\ Len(attempts') = Len(attempts)
        /\ \A c \in Creators :
              appState'[c].stage = "generating" => appState[c].stage = "generating"
    ]_vars

\* a handler has been refused for a balance of 0 after an attempt spent the last credit
C4_Witness ==
    /\ lastCall.op = "getUserCredits"
    /\ lastCall.ret = Num(0)
    /\ \E i \in 1..Len(attempts) : attempts[i].pc = "done" /\ attempts[i].deducted = 1
    /\ \A i \in 1..Len(attempts) : attempts[i].pc \in {"done", "failed"}
    /\ \A c \in Creators : appState[c].stage # "generating"

\* C5: an attempt that ends in the error state has deducted nothing, and an
\* attempt that ends with a new generatedImage has lowered the balance by
\* exactly 1.
C5_DeductedOnlyOnSuccess ==
    \A i \in 1..Len(attempts) :
        /\ attempts[i].pc = "failed" => attempts[i].deducted = 0
        /\ attempts[i].pc = "done" => attempts[i].deducted = 1

(***************************************************************************)
(* Properties of netlify/functions/generate.ts, checked under SpecHandler. *)
(***************************************************************************)
\* the form the client sent has a part named 'face'
HasFacePart(form) == \E i \in 1..Len(form) : form[i].name = FaceName

\* the content-type header declares no boundary
NoBoundary(contentType) == ~Truthy(contentType) \/ BoundaryOf(contentType[1]) = Null

StatusIs(code) == response # Null /\ response[1].statusCode = code

FirstCandidateHasImage(outcome) ==
    /\ outcome.kind = "resolves"
    /\ outcome.response # Null
    /\ Len(outcome.response[1].candidates) > 0
    /\ LET content == outcome.response[1].candidates[1].content
       IN  /\ content # Null
           /\ \E i \in 1..Len(content[1].parts) :
                /\ content[1].parts[i].inlineData # Null
                /\ content[1].parts[i].inlineData[1].data # <<>>

Undoable(c) == <<c.layers, c.history, c.historyIndex>>

\* layers equals history[historyIndex]
LayersAreSnapshot ==
    /\ historyIndex >= 0
    /\ historyIndex < Len(history)
    /\ layers = history[historyIndex + 1]

\* C8: in a state where layers equals history[historyIndex], handleUndo
\* followed by handleRedo (when canUndo holds) and handleRedo followed by
\* handleUndo (when canRedo holds) leave layers, history and historyIndex as
\* they were.
C8_UndoRedoInverse ==
    LayersAreSnapshot =>
        /\ canUndo(Closure) =>
              /\ handleUndo(Closure) # Closure
              /\ Undoable(handleRedo(handleUndo(Closure))) = Undoable(Closure)
        /\ canRedo(Closure) =>
              /\ handleRedo(Closure) # Closure
              /\ Undoable(handleUndo(handleRedo(Closure))) = Undoable(Closure)

\* handleRedo has just undone a handleUndo between two different snapshots
C8_Witness ==
    /\ lastOp = [name |-> "handleRedo", acted |-> TRUE]
    /\ LayersAreSnapshot
    /\ canUndo(Closure)
    /\ history[historyIndex] # history[historyIndex + 1]
    /\ Undoable(handleRedo(handleUndo(Closure))) = Undoable(Closure)

\* C9: -1 <= historyIndex <= history.length - 1, and historyIndex is -1
\* exactly when history is empty; handleUndo changes nothing when
\* historyIndex <= 0 and handleRedo changes nothing when historyIndex is
\* history.length - 1, and when they do act the snapshot they read exists.
C9_HistoryIndexInRange ==
    /\ 0 - 1 <= historyIndex
    /\ historyIndex <= Len(history) - 1
    /\ historyIndex = 0 - 1 <=> history = <<>>
    /\ historyIndex <= 0 => handleUndo(Closure) = Closure
    /\ historyIndex = Len(history) - 1 => handleRedo(Closure) = Closure
    /\ canUndo(Closure) => (historyIndex - 1) + 1 \in DOMAIN history
    /\ canRedo(Closure) => (historyIndex + 1) + 1 \in DOMAIN history
    /\ ( lastOp.name \in {"handleUndo", "handleRedo"} /\ ~lastOp.acted ) =>
          \/ lastOp.name = "handleUndo" /\ historyIndex <= 0
          \/ lastOp.name = "handleRedo" /\ historyIndex = Len(history) - 1

\* handleUndo has been called at historyIndex 0 with two layers on the canvas, and did nothing
C9_Witness ==
    /\ lastOp = [name |-> "handleUndo", acted |-> FALSE]
    /\ historyIndex = 0
    /\ Len(history) > 1
    /\ Len(layers) = 2

RecordingOperations ==
    {"addLayer", "updateLayers", "handleLayerDelete", "deleteSelectedLayers",
     "handleLayersReorder", "duplicateLayer", "duplicateSelectedLayers"}

\* C10 as stated: right after an operation that recorded a snapshot, and
\* right after any handleUndo or handleRedo on a canvas with a history,
\* layers equals history[historyIndex].
C10_LayersAreSnapshotAsStated ==
    /\ ( lastOp.name \in RecordingOperations /\ lastOp.acted ) => LayersAreSnapshot
    /\ ( lastOp.name \in {"handleUndo", "handleRedo"} /\ history # <<>> ) => LayersAreSnapshot

\* C10, amended: right after an operation that recorded a snapshot, and
\* right after a handleUndo called when canUndo held or a handleRedo called
\* when canRedo held, layers equals history[historyIndex].
C10_LayersAreSnapshot ==
    /\ ( lastOp.name \in RecordingOperations /\ lastOp.acted ) => LayersAreSnapshot
    /\ ( lastOp.name \in {"handleUndo", "handleRedo"} /\ lastOp.acted ) => LayersAreSnapshot

\* a final updateLayers on a canvas of two layers has recorded a snapshot that differs from the one before
C10_Witness ==
    /\ lastOp = [name |-> "updateLayers", acted |-> TRUE]
    /\ Len(layers) = 2
    /\ historyIndex >= 1
    /\ layers = history[historyIndex + 1]
    /\ layers # history[historyIndex]

\* the step is an operation that called pushHistory
StepRecords == lastOp'.name \in RecordingOperations /\ lastOp'.acted

\* C11: a history-recording operation performed at historyIndex = i leaves
\* exactly i + 2 snapshots, the first i + 1 of them unchanged and the last
\* one the new layers, historyIndex = i + 1 and canRedo false, whatever had
\* been undone before.
C11_CommitDiscardsRedo ==
    [][StepRecords =>
        /\ Len(history') = historyIndex + 2
        /\ SubSeq(history', 1, historyIndex + 1) = SubSeq(history, 1, historyIndex + 1)
        /\ history'[historyIndex + 2] = layers'
        /\ historyIndex' = historyIndex + 1
        /\ ~(historyIndex' < Len(history') - 1)
    ]_vars

\* a final updateLayers has recorded the second of two snapshots of the first layer,
\* on a canvas where a second layer had been created before
C11_Witness ==
    /\ lastOp = [name |-> "updateLayers", acted |-> TRUE]
    /\ nextId = 2
    /\ historyIndex = 1
    /\ Len(history) = 2
    /\ history[1] # history[2]
    /\ \A k \in 1..2 : Len(history[k]) = 1 /\ history[k][1].id = 1
    /\ ~canRedo(Closure)

(***************************************************************************)
(* The stage of the single-image creators, checked under SpecStages.       *)
(***************************************************************************)
InFlight(a) == a.pc \notin {"done", "failed"}

\* C12: an attempt that passes its guards sets the stage of its creator to
\* 'generating'; the step in which an attempt ends, after its image-service
\* call has resolved or rejected, sets the stage to 'results'; an attempt
\* whose image-service call has resolved does end; and the stage of a
\* creator is 'generating' only while one of its attempts is in flight.
C12_StageSettles ==
    /\ [](\A c \in SingleImageCreators :
            appState[c].stage = "generating" =>
                \E i \in 1..Len(attempts) : attempts[i].creator = c /\ InFlight(attempts[i]))
    /\ [][/\ Len(attempts') = Len(attempts) + 1 =>
                appState'[attempts'[Len(attempts')].creator].stage = "generating"
          /\ \A i \in 1..Len(attempts) :
                ( InFlight(attempts[i]) /\ ~InFlight(attempts'[i]) ) =>
                    appState'[attempts[i].creator].stage = "results"
       ]_vars
    /\ \A i \in 1..MaxAttempts :
          ( i <= Len(attempts) /\ attempts[i].pc = "awaitEmbed" )
             ~> ( i <= Len(attempts) /\ attempts[i].pc = "done" )

\* an attempt of ToyModelCreator has ended in the error state and one of
\* TetQr2026Creator with a new image, both at stage 'results'
C12_Witness ==
    /\ Len(attempts) = 2
    /\ \E i \in 1..2 : attempts[i].creator = ToyModel /\ attempts[i].pc = "failed"
    /\ \E i \in 1..2 : attempts[i].creator = TetQr /\ attempts[i].pc = "done"
    /\ appState[ToyModel].stage = "results" /\ appState[ToyModel].error
    /\ appState[TetQr].stage = "results" /\ appState[TetQr].generatedImage # 0

(***************************************************************************)
(* App.handleSubmit, checked under SpecApp.                                *)
(***************************************************************************)
NonBlank(t) == \E k \in 1..Len(t) : t[k] # " "

FormIsValid ==
    /\ app.file
    /\ app.activeTab = "nameplate" => NonBlank(app.name) /\ NonBlank(app.phone)

\* C13: handleSubmit sends a request only when a file is selected and, on
\* the 'nameplate' tab, name and phone are not blank; a handleSubmit whose
\* validation fails sets error, sends nothing and leaves loading false;
\* loading is true exactly while a sent request's handleSubmit is suspended
\* at one of its awaits, the await of the key selection included.
C13_SubmitLoading ==
    /\ [](app.loading <=> app.pc # "idle")
    /\ [][/\ app'.sent # app.sent =>
                FormIsValid /\ app'.step = "handleSubmit" /\ app'.loading /\ app'.pc = "awaitFetch"
          /\ ( app'.step = "handleSubmit" /\ ~FormIsValid ) =>
                app'.error /\ app'.sent = app.sent /\ ~app.loading /\ ~app'.loading
       ]_vars

\* a request sent from the 'nameplate' tab was answered "Requested entity was
\* not found", the key dialog has closed and handleSubmit has returned
C13_Witness ==
    /\ app.step = "openSelectKey" /\ app.hasSelectedKey = <<TRUE>>
    /\ app.activeTab = "nameplate" /\ app.name = <<" ", "a">> /\ app.phone = <<"1", " ">>
    /\ app.sent = 1 /\ ~app.loading /\ ~app.error

(***************************************************************************)
(* Credits and overlapping attempts, checked under SpecCreators, where     *)
(* resetUserCredits is never called.                                       *)
(***************************************************************************)
\* the balance of username before any call: no balance item is stored yet,
\* and the login configuration does not change
StartBalance(username) == Max(getMaxCredits(localStorage, username), 0)

GeneratedFor(username) ==
    {i \in 1..Len(attempts) : attempts[i].username = username /\ attempts[i].pc = "done"}

\* C14: the attempts of one username that have ended with a new generated
\* image are never more than the balance the username started with.
C14_GenerationsWithinBalance ==
    \A username \in Usernames : Cardinality(GeneratedFor(username)) <= StartBalance(username)

(***************************************************************************)
(* More properties of the layer composer, checked under SpecComposer.      *)
(***************************************************************************)
\* the cells after handleUndo has been applied n times, each from the
\* render the one before it produced
RECURSIVE UndoTimes(_, _)
UndoTimes(c, n) == IF n = 0 THEN c ELSE UndoTimes(handleUndo(c), n - 1)

\* C15: on a canvas made by handleCreateNew, right after a history-recording
\* operation, as many handleUndo calls as there are snapshots (at most one
\* per recording operation since handleCreateNew) give back the empty canvas.
C15_UndoReachesEmptyCanvas ==
    ( /\ canvasInitialized
      /\ lastOp.name \in RecordingOperations /\ lastOp.acted ) =>
        UndoTimes(Closure, Len(history)).layers = <<>>

\* the step is an updateLayers with isFinalChange = false or a handleDuplicateForDrag
StepIsUncommitted ==
    \/ lastOp'.name = "updateLayers" /\ ~lastOp'.acted
    \/ lastOp'.name = "handleDuplicateForDrag"

\* C16: updateLayers with isFinalChange = false and handleDuplicateForDrag
\* leave history and historyIndex, and so canUndo and canRedo, as they were;
\* the former keeps the layers' ids, order and the selection, the latter
\* appends one clone per selected layer and selects the clones.
C16_UncommittedKeepsHistory ==
    [][StepIsUncommitted =>
        /\ history' = history /\ historyIndex' = historyIndex
        /\ lastOp'.name = "updateLayers" =>
              /\ selectedLayerIds' = selectedLayerIds
              /\ Len(layers') = Len(layers)
              /\ \A i \in 1..Len(layers) : layers'[i].id = layers[i].id
        /\ lastOp'.name = "handleDuplicateForDrag" =>
              LET sel == selectedLayers(Closure)
              IN  /\ Len(layers') = Len(layers) + Len(sel)
                  /\ SubSeq(layers', 1, Len(layers)) = layers
                  /\ sel # <<>> =>
                        /\ Len(selectedLayerIds') = Len(sel)
                        /\ \A k \in 1..Len(sel) :
                              /\ layers'[Len(layers) + k].id = selectedLayerIds'[k]
                              /\ layers'[Len(layers) + k].x = sel[k].x
                              /\ layers'[Len(layers) + k].y = sel[k].y
                              /\ \A i \in 1..Len(layers) : layers[i].id # selectedLayerIds'[k]
    ]_vars

\* a layer was added and then cloned for a drag: two layers, one snapshot
C16_Witness ==
    /\ lastOp.name = "handleDuplicateForDrag"
    /\ Len(layers) = 2 /\ selectedLayerIds = <<2>>
    /\ Len(history) = 1 /\ historyIndex = 0 /\ Len(history[1]) = 1
    /\ ~canUndo(Closure)

(***************************************************************************)
(* The asynchronous layer additions, checked under SpecLoader.             *)
(***************************************************************************)
\* C17: when a pending addition completes, the layers list is the list as
\* the user's intervening changes left it, with the new layer appended; so
\* n files selected at once add n layers in whatever order they load.
C17_AdditionKeepsEdits ==
    [][( lastOp'.name = "loadSettles" /\ lastOp'.acted ) =>
        /\ Len(layers') = Len(layers) + 1
        /\ SubSeq(layers', 1, Len(layers)) = layers
        /\ layers'[Len(layers')].id = nextId'
    ]_vars

(***************************************************************************)
(* handleMultiLayerAction, checked under SpecArrange.                      *)
(***************************************************************************)
ComposerCellsUnchanged ==
    /\ layers' = layers /\ history' = history /\ historyIndex' = historyIndex
    /\ selectedLayerIds' = selectedLayerIds

\* the step is a call of handleMultiLayerAction
StepIsMultiLayerAction == lastOp.name = "setSelectedLayerIds" /\ lastOp'.name # lastOp.name

IsSelected(i) == Contains(selectedLayerIds, layers[i].id)

SelectedCount == Cardinality({i \in 1..Len(layers) : IsSelected(i)})

\* the binary64 value of the whole number k
Binary64Of(k) ==
    LET bits == CHOOSE b \in 1..31 : k \div 2^(b - 1) = 1
    IN  IF k = 0 THEN [hi |-> 0, lo |-> 0, e |-> 0]
        ELSE [hi |-> k * 2^(27 - bits), lo |-> 0, e |-> bits - 53]

\* a <= b for binary64 values that are not negative
LessEq(a, b) ==
    \/ a.hi = 0
    \/ /\ b.hi # 0
       /\ \/ a.e < b.e
          \/ a.e = b.e /\ (a.hi < b.hi \/ (a.hi = b.hi /\ a.lo <= b.lo))

\* C18: with fewer than 2 layers selected every action of
\* handleMultiLayerAction leaves layers, history, historyIndex and the
\* selection as they were; so do the two 'distribute' actions with exactly
\* 2 selected; 'align-left' with 2 or more selected sets the x of every
\* selected layer to the least x among them and changes nothing else of
\* any layer.
C18_DegenerateSelections ==
    [][StepIsMultiLayerAction =>
        /\ SelectedCount < 2 => ComposerCellsUnchanged
        /\ ( /\ lastOp'.name \in {"distribute-horizontal", "distribute-vertical"}
             /\ SelectedCount = 2 ) => ComposerCellsUnchanged
        /\ ( lastOp'.name = "align-left" /\ SelectedCount >= 2 ) =>
              /\ Len(layers') = Len(layers)
              /\ selectedLayerIds' = selectedLayerIds
              /\ \A i \in 1..Len(layers) :
                    /\ layers'[i].id = layers[i].id
                    /\ layers'[i].y = layers[i].y
                    /\ ~IsSelected(i) => layers'[i].x = layers[i].x
                    /\ IsSelected(i) =>
                          /\ \A j \in 1..Len(layers) :
                                IsSelected(j) => LessEq(layers'[i].x, layers[j].x)
                          /\ \E j \in 1..Len(layers) : IsSelected(j) /\ layers'[i].x = layers[j].x
    ]_vars

\* 'align-left' has moved the second of two selected layers from x = 10 to
\* x = 0 and left the unselected third layer at MaxX
C18_Witness ==
    /\ lastOp.name = "align-left"
    /\ Len(layers) = 3 /\ selectedLayerIds = <<1, 2>>
    /\ layers[1].x = Binary64Of(0) /\ layers[2].x = Binary64Of(0)
    /\ layers[3].x = Binary64Of(MaxX)
    /\ Len(history) = 4 /\ history[3][2].x = Binary64Of(10) /\ history[4] = layers

\* the whole number a binary64 value holds
WholeOf(a) == IF a.hi = 0 THEN 0 ELSE a.hi \div 2^((0 - a.e) - 26)

\* the whole part of 2^16 times a binary64 value between 1/16 and 2^11
Scaled(a) == IF a.hi = 0 THEN 0 ELSE a.hi \div 2^((0 - a.e) - 42)

\* the action that distributes along f
Distribute(f) == IF f = "x" THEN "distribute-horizontal" ELSE "distribute-vertical"

\* the place of selected layer i in the order of f, layers with the same f
\* in the order of the list
RankBy(f, i) ==
    1 + Cardinality({j \in 1..Len(layers) :
            /\ IsSelected(j)
            /\ \/ WholeOf(layers[j][f]) < WholeOf(layers[i][f])
               \/ layers[j][f] = layers[i][f] /\ j < i})

LeastOf(f) == CHOOSE v \in {WholeOf(layers[i][f]) : i \in {j \in 1..Len(layers) : IsSelected(j)}} :
                \A i \in 1..Len(layers) : IsSelected(i) => v <= WholeOf(layers[i][f])

GreatestOf(f) == CHOOSE v \in {WholeOf(layers[i][f]) : i \in {j \in 1..Len(layers) : IsSelected(j)}} :
                \A i \in 1..Len(layers) : IsSelected(i) => v >= WholeOf(layers[i][f])

\* what a 'distribute' of 3 or more layers leaves alone
DistributeFrame(f) ==
    /\ Len(layers') = Len(layers)
    /\ selectedLayerIds' = selectedLayerIds
    /\ history' = Append(SubSeq(history, 1, historyIndex + 1), layers')
    /\ historyIndex' = historyIndex + 1
    /\ \A i \in 1..Len(layers) :
          /\ layers'[i].id = layers[i].id
          /\ ~IsSelected(i) => layers'[i] = layers[i]
          /\ IsSelected(i) => \A g \in {"x", "y"} \ {f} : layers'[i][g] = layers[i][g]

\* the order of f among the selected layers is kept
OrderPreserved(f) ==
    \A i, j \in 1..Len(layers) :
        ( IsSelected(i) /\ IsSelected(j) /\ RankBy(f, i) < RankBy(f, j) ) =>
            LessEq(layers'[i][f], layers'[j][f])

====
